---- MODULE Spec2Model ----
(***************************************************************************)
(* Model of red-perfume's CSS atomizer (src/css.js and src/css-parser.js). *)
(*                                                                         *)
(* Strings are sequences of atoms (short TLA+ strings); the atoms ":" and  *)
(* "." are the two characters the code inspects (split(':'), includes(':') *)
(* and startsWith('.')).  Concatenation of strings is \o.                  *)
(*                                                                         *)
(* A JavaScript object used as a table whose iteration order matters       *)
(* (newRules) is a sequence of entries in insertion order: assigning an    *)
(* existing key keeps its position, assigning a new key appends, delete    *)
(* removes.  None of the keys is integer-like, so Object.keys() is the     *)
(* insertion order.  classMap is only ever read key by key, so it is a     *)
(* function from selector text to a sequence of class names.               *)
(***************************************************************************)
EXTENDS Integers, Sequences, FiniteSets, TLC

\* ------------------------------------------------------------------ bounds
MaxRules == 2          \* rules in one stylesheet
MaxSelectors == 2      \* selectors in one stylesheet, over all its rules
MaxDeclarations == 3   \* declarations in one stylesheet, over all its rules

\* ----------------------------------------------------------- string helpers
Min(S) == CHOOSE x \in S : \A y \in S : x <= y

ToSet(s) == { s[i] : i \in DOMAIN s }

Colons(text) == { i \in DOMAIN text : text[i] = ":" }

\* text.split(':')[0]
SplitHead(text) ==
  IF Colons(text) = {} THEN text ELSE SubSeq(text, 1, Min(Colons(text)) - 1)

\* split = key.split(':'); split.shift(); ':' + split.join(':')
SplitTail(text) == SubSeq(text, Min(Colons(text)), Len(text))

includes(text, atom) == \E i \in DOMAIN text : text[i] = atom

startsWith(text, atom) == Len(text) > 0 /\ text[1] = atom

\* String.prototype.toUpperCase on the pseudo-class names of the inputs
toUpperCase(name) ==
  CASE name = "hover" -> "HOVER"
    [] name = "root"  -> "ROOT"
    [] OTHER          -> name

Reverse(s) == [ i \in 1..Len(s) |-> s[Len(s) + 1 - i] ]

\* Array.from(new Set(s)): every value once, at its first occurrence
ArrayFromSet(s) ==
  LET first == { i \in DOMAIN s : \A j \in 1..(i - 1) : s[j] # s[i] }
      F[i \in 0..Len(s)] ==
        IF i = 0 THEN << >>
        ELSE IF i \in first THEN Append(F[i - 1], s[i]) ELSE F[i - 1]
  IN F[Len(s)]

\* ------------------------------------------------------------ collaborators
\* css-class-encoding.js: '.rp__' + property + '__--COLON' + value
encodeClassName(declaration) ==
  << ".", "rp__", declaration.property, "__--COLON", declaration.value >>

\* css-uglifier.js: counter -> { name, index }
cssUglifier(index) ==
  [ name |-> << ".", "rp__", ToString(index) >>, index |-> index + 1 ]

\* css-stringify.js: selectors joined by ',', then the declarations in braces
RECURSIVE JoinSelectors(_)
JoinSelectors(selectors) ==
  IF Len(selectors) = 0 THEN << >>
  ELSE IF Len(selectors) = 1 THEN selectors[1]
  ELSE selectors[1] \o << "," >> \o JoinSelectors(Tail(selectors))

RECURSIVE JoinDeclarations(_)
JoinDeclarations(declarations) ==
  IF Len(declarations) = 0 THEN << >>
  ELSE << declarations[1].property, ":", declarations[1].value, ";" >>
         \o JoinDeclarations(Tail(declarations))

RECURSIVE cssStringify(_)
cssStringify(rules) ==
  IF Len(rules) = 0 THEN << >>
  ELSE JoinSelectors(rules[1].selectors) \o << "{" >>
         \o JoinDeclarations(rules[1].declarations) \o << "}" >>
         \o cssStringify(Tail(rules))

\* ------------------------------------------------------------------ inputs
Component(type, name, value, original) ==
  [ type |-> type, name |-> name, value |-> value, original |-> original ]

\* The selectors of the input stylesheets, as css-what decomposes them; the
\* first component carries the selector's text in `original`.
SelectorPool ==
  { << Component("attribute", "class", "a", << ".", "a" >>) >>,
    << Component("attribute", "class", "b", << ".", "b" >>) >>,
    << Component("attribute", "class", "a", << ".", "a", ":", "hover" >>),
       Component("pseudo", "hover", "", << >>) >>,
    << Component("tag", "div", "", << "div" >>) >>,
    << Component("attribute", "id", "x", << "#", "x" >>) >>,
    << Component("pseudo", "root", "", << ":", "root" >>) >> }

RawDeclaration(property, value) ==
  [ property |-> property, value |-> value, position |-> "line:column" ]

DeclarationPool ==
  { RawDeclaration("color", "red"), RawDeclaration("color", "blue") }

RECURSIVE SeqsOfLen(_, _)
SeqsOfLen(S, n) ==
  IF n = 0 THEN { << >> }
  ELSE { << x >> \o s : x \in S, s \in SeqsOfLen(S, n - 1) }

SeqsUpTo(S, lo, hi) == UNION { SeqsOfLen(S, n) : n \in lo..hi }

RECURSIVE Total(_)
Total(lists) ==
  IF lists = << >> THEN 0 ELSE Len(Head(lists)) + Total(Tail(lists))

\* the selector lists of k rules: none empty, MaxSelectors selectors in all
SelectorParts(k) ==
  { t \in SeqsOfLen(SeqsUpTo(SelectorPool, 1, MaxSelectors - k + 1), k) :
      Total(t) <= MaxSelectors }

RECURSIVE Flat(_)
Flat(lists) ==
  IF lists = << >> THEN << >> ELSE Head(lists) \o Flat(Tail(lists))

\* the declaration lists of k rules: MaxDeclarations declarations in all.
\* The atomizer never looks into a property or a value, so stylesheets are
\* taken up to the renaming of their declarations: the first declaration of
\* a stylesheet, in reading order, is color:red.
DeclarationParts(k) ==
  { t \in SeqsOfLen(SeqsUpTo(DeclarationPool, 0, MaxDeclarations), k) :
      /\ Total(t) <= MaxDeclarations
      /\ Flat(t) # << >> => Head(Flat(t)) = RawDeclaration("color", "red") }

\* the stylesheet of the rules with these selector and declaration lists
Stylesheet(ss, ds) ==
  [ i \in DOMAIN ss |-> [ selectors |-> ss[i], declarations |-> ds[i] ] ]

\* the texts atomize fails on: the empty text, and text the css library
\* throws on
FailingInputs ==
  { [ kind |-> "empty", rules |-> << >> ], [ kind |-> "throws", rules |-> << >> ] }

\* the text of a well-formed stylesheet
Text(rules) == [ kind |-> "text", rules |-> rules ]

\* ------------------------------------------------------------------ parser
recursivelyRemovePosition(declarations) ==
  [ i \in DOMAIN declarations |->
      [ property |-> declarations[i].property, value |-> declarations[i].value ] ]

\* cssParser without its guard on falsy input: the css library parses the
\* empty text into a stylesheet without rules
cssParserNoGuard(in) ==
  IF in.kind = "throws"
    THEN [ threw |-> TRUE, defined |-> FALSE, rules |-> << >>, reports |-> << >> ]
  ELSE [ threw |-> FALSE, defined |-> TRUE,
         rules |-> [ i \in DOMAIN in.rules |->
                       [ selectors |-> in.rules[i].selectors,
                         declarations |->
                           recursivelyRemovePosition(in.rules[i].declarations) ] ],
         reports |-> << >> ]

\* cssParser: undefined for falsy input (after reporting), throws when the
\* css library does, else the rules with their positions removed
cssParser(in) ==
  IF in.kind = "empty"
    THEN [ threw |-> FALSE, defined |-> FALSE, rules |-> << >>,
           reports |-> << "Invalid CSS input." >> ]
  ELSE IF in.kind = "throws"
    THEN [ threw |-> TRUE, defined |-> FALSE, rules |-> << >>, reports |-> << >> ]
  ELSE [ threw |-> FALSE, defined |-> TRUE,
         rules |-> [ i \in DOMAIN in.rules |->
                       [ selectors |-> in.rules[i].selectors,
                         declarations |->
                           recursivelyRemovePosition(in.rules[i].declarations) ] ],
         reports |-> << >> ]

\* --------------------------------------------------------- tables (objects)
Keys(table) == [ i \in DOMAIN table |-> table[i].key ]

HasKey(table, key) == \E i \in DOMAIN table : table[i].key = key

Get(table, key) == table[CHOOSE i \in DOMAIN table : table[i].key = key]

\* table[key] = entry
Put(table, key, entry) ==
  IF HasKey(table, key)
    THEN [ i \in DOMAIN table |-> IF table[i].key = key THEN entry ELSE table[i] ]
    ELSE Append(table, entry)

\* delete table[key]
Delete(table, key) ==
  LET F[i \in 0..Len(table)] ==
        IF i = 0 THEN << >>
        ELSE IF table[i].key = key THEN F[i - 1] ELSE Append(F[i - 1], table[i])
  IN F[Len(table)]

Rule(key, declarations) ==
  [ key |-> key, selectors |-> << key >>, declarations |-> declarations ]

\* --------------------------------------------------------------- atomizer
\* deduplication without the two reverse() calls: first occurrence kept
removeIdenticalPropertiesKeepFirst(classMap) ==
  [ selector \in DOMAIN classMap |-> ArrayFromSet(classMap[selector]) ]

removeIdenticalProperties(classMap) ==
  [ selector \in DOMAIN classMap |->
      Reverse(ArrayFromSet(Reverse(classMap[selector]))) ]

\* updateClassMap pushing the class name without split(':')[0]
PushClassUnsplit(classMap, selector, encodedClassName) ==
  LET originalSelectorName == SplitHead(selector[1].original)
      old == IF originalSelectorName \in DOMAIN classMap
               THEN classMap[originalSelectorName] ELSE << >>
  IN [ s \in DOMAIN classMap \cup { originalSelectorName } |->
         IF s = originalSelectorName
           THEN Append(old, encodedClassName)
           ELSE classMap[s] ]

\* one iteration of the forEach in updateClassMap
PushClass(classMap, selector, encodedClassName) ==
  LET originalSelectorName == SplitHead(selector[1].original)
      old == IF originalSelectorName \in DOMAIN classMap
               THEN classMap[originalSelectorName] ELSE << >>
  IN [ s \in DOMAIN classMap \cup { originalSelectorName } |->
         IF s = originalSelectorName
           THEN Append(old, SplitHead(encodedClassName))
           ELSE classMap[s] ]

updateClassMap(classMap, selectors, encodedClassName) ==
  LET F[i \in 0..Len(selectors)] ==
        IF i = 0 THEN classMap
        ELSE PushClass(F[i - 1], selectors[i], encodedClassName)
  IN F[Len(selectors)]

handleNonClasses(rule, newRules) ==
  LET originalSelectorName == rule.selectors[1][1].original
  IN Put(newRules, originalSelectorName,
         Rule(originalSelectorName, rule.declarations))

\* the branch condition of the forEach over parsed.stylesheet.rules
IsNonClass(rule) ==
  LET type == rule.selectors[1][1].type
      name == rule.selectors[1][1].name
  IN type = "tag" \/ (type = "attribute" /\ name # "class")

\* the class name one declaration of a rule is emitted under
EncodedClassName(rule, declaration) ==
  IF Len(rule.selectors[1]) >= 2 /\ rule.selectors[1][2].type = "pseudo"
    THEN LET pseudoName == rule.selectors[1][2].name
         IN encodeClassName(declaration)
              \o << "___-", toUpperCase(pseudoName), ":", pseudoName >>
    ELSE encodeClassName(declaration)

\* the atomizing loop with the emitted rule keyed per original selector, so
\* that equal declarations of different rules are not shared
AtomizeRulePerSelector(rule, cm, nr) ==
  LET F[i \in 0..Len(rule.declarations)] ==
        IF i = 0 THEN [ classMap |-> cm, newRules |-> nr ]
        ELSE LET declaration == rule.declarations[i]
                 encodedClassName == EncodedClassName(rule, declaration)
                 ownKey == encodedClassName \o << "_" >>
                             \o SplitHead(rule.selectors[1][1].original)
             IN [ classMap |-> updateClassMap(F[i - 1].classMap, rule.selectors,
                                              encodedClassName),
                  newRules |-> Put(F[i - 1].newRules, ownKey,
                                   Rule(ownKey, << declaration >>)) ]
  IN F[Len(rule.declarations)]

\* rule.declarations.forEach(...) of a rule that is atomized
AtomizeRule(rule, cm, nr) ==
  LET F[i \in 0..Len(rule.declarations)] ==
        IF i = 0 THEN [ classMap |-> cm, newRules |-> nr ]
        ELSE LET declaration == rule.declarations[i]
                 encodedClassName == EncodedClassName(rule, declaration)
             IN [ classMap |-> updateClassMap(F[i - 1].classMap, rule.selectors,
                                              encodedClassName),
                  newRules |-> Put(F[i - 1].newRules, encodedClassName,
                                   Rule(encodedClassName, << declaration >>)) ]
  IN F[Len(rule.declarations)]

\* classMap[mapKey][indexOf(key)] = name, for every mapKey
RenameInClassMap(classMap, key, name) ==
  [ mapKey \in DOMAIN classMap |->
      LET at == { i \in DOMAIN classMap[mapKey] : classMap[mapKey][i] = key }
      IN IF at = { } THEN classMap[mapKey]
         ELSE [ classMap[mapKey] EXCEPT ![Min(at)] = name ] ]

\* the uglify loop body without `index = result.index`
UglifyKeyCounterNotCarried(key, cm, nr, idx) ==
  LET pseudo == IF includes(key, ":") THEN SplitTail(key) ELSE << >>
      result == cssUglifier(idx)
      uglifiedName == result.name \o pseudo
      moved == [ Get(nr, key) EXCEPT !.key = uglifiedName,
                                     !.selectors = << uglifiedName >> ]
  IN [ newRules |-> Delete(Put(nr, uglifiedName, moved), key),
       classMap |-> RenameInClassMap(cm, SplitHead(key), result.name),
       index |-> idx ]

\* the body of the uglify loop for one key that starts with '.'
UglifyKey(key, cm, nr, idx) ==
  LET pseudo == IF includes(key, ":") THEN SplitTail(key) ELSE << >>
      result == cssUglifier(idx)
      uglifiedName == result.name \o pseudo
      moved == [ Get(nr, key) EXCEPT !.key = uglifiedName,
                                     !.selectors = << uglifiedName >> ]
  IN [ newRules |-> Delete(Put(nr, uglifiedName, moved), key),
       classMap |-> RenameInClassMap(cm, SplitHead(key), result.name),
       index |-> result.index ]

\* -------------------------------------------------------------------- state
VARIABLES
  input,      \* the kind of text handed to atomize: "empty", "throws", "text"
  uglify,     \* the uglify argument
  pc,         \* position in css(): "idle", "rules", "uglify", "done"
  parsed,     \* parsed.stylesheet.rules
  ruleIdx,    \* the rule the forEach over parsed.stylesheet.rules is at
  dispatch,   \* the branch taken for each rule handled so far
  classMap,
  newRules,
  keys,       \* Object.keys(newRules) taken when the uglify loop starts
  keyIdx,     \* the key the uglify loop is at
  index,      \* the uglifier's counter
  reports,    \* messages handed to helpers.throwError
  result,     \* the returned { classMap, output }
  atomized    \* history: classMap and newRules when the uglify loop starts

vars == << input, uglify, pc, parsed, ruleIdx, dispatch, classMap, newRules,
           keys, keyIdx, index, reports, result, atomized >>

EmptyMap == [ s \in { } |-> << >> ]

NoResult == [ returned |-> FALSE, classMap |-> EmptyMap, rules |-> << >>,
              output |-> << >> ]

Init ==
  /\ input = "none"
  /\ uglify = FALSE
  /\ pc = "idle"
  /\ parsed = << >>
  /\ ruleIdx = 0
  /\ dispatch = << >>
  /\ classMap = EmptyMap
  /\ newRules = << >>
  /\ keys = << >>
  /\ keyIdx = 0
  /\ index = 0
  /\ reports = << >>
  /\ result = NoResult
  /\ atomized = [ classMap |-> EmptyMap, newRules |-> << >> ]

\* css(options, input, uglify) on a text the parser fails on: the reports
\* and the empty result
ParseFails ==
  /\ pc = "idle"
  /\ \E in \in FailingInputs, u \in BOOLEAN :
       LET p == cssParser(in)
       IN /\ ~p.defined
          /\ input' = in.kind
          /\ uglify' = u
          /\ reports' = reports \o p.reports
                          \o (IF p.threw THEN << "Error parsing CSS" >> ELSE << >>)
                          \o << "Error parsing CSS" >>
  /\ result' = [ returned |-> TRUE, classMap |-> EmptyMap, rules |-> << >>,
                 output |-> << >> ]
  /\ pc' = "done"
  /\ UNCHANGED << parsed, ruleIdx, dispatch, classMap, newRules, keys, keyIdx,
                  index, atomized >>

\* css(options, input, uglify) on an input cssParser returns a tree for (the
\* text of a stylesheet of at most MaxRules rules): the call to cssParser, up
\* to the construction of the empty tables
ParseSucceeds ==
  /\ pc = "idle"
  /\ \E u \in BOOLEAN, k \in 0..MaxRules :
       \E ds \in DeclarationParts(k) : \E ss \in SelectorParts(k) :
         \E in \in { Text(Stylesheet(ss, ds)) }
                     \cup (IF k = 0 THEN FailingInputs ELSE { }) :
         LET p == cssParser(in)
         IN /\ p.defined
            /\ input' = in.kind
            /\ uglify' = u
            /\ parsed' = p.rules
            /\ reports' = reports \o p.reports
  /\ pc' = "rules"
  /\ ruleIdx' = 1
  /\ UNCHANGED << dispatch, classMap, newRules, keys, keyIdx, index, result,
                  atomized >>

\* one iteration of parsed.stylesheet.rules.forEach: the non-class branch
NonClassRule ==
  /\ pc = "rules"
  /\ ruleIdx <= Len(parsed)
  /\ IsNonClass(parsed[ruleIdx])
  /\ newRules' = handleNonClasses(parsed[ruleIdx], newRules)
  /\ dispatch' = Append(dispatch, "nonclass")
  /\ ruleIdx' = ruleIdx + 1
  /\ UNCHANGED << input, uglify, pc, parsed, classMap, keys, keyIdx, index,
                  reports, result, atomized >>

\* one iteration of parsed.stylesheet.rules.forEach: the else branch
ClassRule ==
  /\ pc = "rules"
  /\ ruleIdx <= Len(parsed)
  /\ ~IsNonClass(parsed[ruleIdx])
  /\ LET a == AtomizeRule(parsed[ruleIdx], classMap, newRules)
     IN /\ classMap' = a.classMap
        /\ newRules' = a.newRules
  /\ dispatch' = Append(dispatch, "atomized")
  /\ ruleIdx' = ruleIdx + 1
  /\ UNCHANGED << input, uglify, pc, parsed, keys, keyIdx, index, reports,
                  result, atomized >>

\* after the last rule: removeIdenticalProperties, and Object.keys(newRules)
\* for the uglify loop
Deduplicate ==
  /\ pc = "rules"
  /\ ruleIdx > Len(parsed)
  /\ classMap' = removeIdenticalProperties(classMap)
  /\ atomized' = [ classMap |-> classMap', newRules |-> newRules ]
  /\ keys' = IF uglify THEN Keys(newRules) ELSE << >>
  /\ keyIdx' = 1
  /\ pc' = "uglify"
  /\ UNCHANGED << input, uglify, parsed, ruleIdx, dispatch, newRules, index,
                  reports, result >>

\* one iteration of the uglify loop, for a key that starts with '.'
UglifyClassKey ==
  /\ pc = "uglify"
  /\ keyIdx <= Len(keys)
  /\ startsWith(keys[keyIdx], ".")
  /\ LET u == UglifyKey(keys[keyIdx], classMap, newRules, index)
     IN /\ newRules' = u.newRules
        /\ classMap' = u.classMap
        /\ index' = u.index
  /\ keyIdx' = keyIdx + 1
  /\ UNCHANGED << input, uglify, pc, parsed, ruleIdx, dispatch, keys, reports,
                  result, atomized >>

\* one iteration of the uglify loop, for any other key
UglifySkipKey ==
  /\ pc = "uglify"
  /\ keyIdx <= Len(keys)
  /\ ~startsWith(keys[keyIdx], ".")
  /\ keyIdx' = keyIdx + 1
  /\ UNCHANGED << input, uglify, pc, parsed, ruleIdx, dispatch, classMap,
                  newRules, keys, index, reports, result, atomized >>

\* the rules are pushed in Object.keys(newRules) order and serialized
Return ==
  /\ pc = "uglify"
  /\ keyIdx > Len(keys)
  /\ result' = [ returned |-> TRUE, classMap |-> classMap, rules |-> newRules,
                 output |-> cssStringify(newRules) ]
  /\ pc' = "done"
  /\ UNCHANGED << input, uglify, parsed, ruleIdx, dispatch, classMap, newRules,
                  keys, keyIdx, index, reports, atomized >>

Next ==
  \/ ParseFails
  \/ ParseSucceeds
  \/ NonClassRule
  \/ ClassRule
  \/ Deduplicate
  \/ UglifyClassKey
  \/ UglifySkipKey
  \/ Return

Spec == Init /\ [][Next]_vars

\* ------------------------------------------------------- vocabulary of claims
Finished == pc = "done" /\ input = "text"

Out == result.rules

CM == result.classMap

RECURSIVE UpToColon(_)
UpToColon(text) ==
  IF text = << >> \/ Head(text) = ":" THEN << >>
  ELSE << Head(text) >> \o UpToColon(Tail(text))

SelectorText(selector) == selector[1].original

SelectorTexts(rule) ==
  { SelectorText(rule.selectors[n]) : n \in DOMAIN rule.selectors }

FirstComponent(rule) == rule.selectors[1][1]

IsClassTargeted(rule) ==
  FirstComponent(rule).type = "attribute" /\ FirstComponent(rule).name = "class"

IsPassthrough(rule) ==
  \/ FirstComponent(rule).type = "tag"
  \/ FirstComponent(rule).type = "attribute" /\ FirstComponent(rule).name # "class"

HasPseudoSecond(selector) == Len(selector) >= 2 /\ selector[2].type = "pseudo"

NoDuplicates(s) == \A i, j \in DOMAIN s : s[i] = s[j] => i = j

IsClassKey(key) == key # << >> /\ Head(key) = "."

ClassTargetedRules == { i \in DOMAIN parsed : IsClassTargeted(parsed[i]) }

PassthroughRules == { i \in DOMAIN parsed : IsPassthrough(parsed[i]) }

\* the declarations of the class-targeted input rules that list a selector
\* whose text up to its first ':' is S
DeclarationsFor(S) ==
  UNION { ToSet(parsed[i].declarations) :
            i \in { r \in ClassTargetedRules :
                      \E t \in SelectorTexts(parsed[r]) : UpToColon(t) = S } }

\* the declarations carried by the emitted rules that the names in `names`
\* are the keys of, pseudo suffix removed
DeclarationsOf(names) ==
  UNION { ToSet(Out[j].declarations) :
            j \in { o \in DOMAIN Out : UpToColon(Out[o].key) \in names } }

\* C1: every classMap key S names only emitted rules (key with the pseudo
\* suffix removed), and the declarations of those rules are exactly the
\* declarations of the class-targeted input rules that list S.
C1_ClassMapReproducesRules ==
  Finished =>
    \A S \in DOMAIN CM :
      /\ \A n \in ToSet(CM[S]) : \E j \in DOMAIN Out : UpToColon(Out[j].key) = n
      /\ DeclarationsOf(ToSet(CM[S])) = DeclarationsFor(S)

\* C2: the text of a selector whose first component is a tag or a non-class
\* attribute, at any position of any rule's selector list, is never a key of
\* the classMap.
C2_NoNonClassKey ==
  Finished =>
    \A i \in DOMAIN parsed : \A n \in DOMAIN parsed[i].selectors :
      LET c == parsed[i].selectors[n][1]
      IN (c.type = "tag" \/ (c.type = "attribute" /\ c.name # "class"))
           => c.original \notin DOMAIN CM

\* C3: every passthrough input rule is in the output unmodified, one output
\* rule per passthrough input rule, with all its selectors and declarations.
C3_PassthroughVerbatim ==
  Finished =>
    /\ Cardinality({ j \in DOMAIN Out : ~IsClassKey(Out[j].key) })
         = Cardinality(PassthroughRules)
    /\ \A i \in PassthroughRules : \E j \in DOMAIN Out :
         /\ Out[j].selectors =
              [ n \in DOMAIN parsed[i].selectors |->
                  SelectorText(parsed[i].selectors[n]) ]
         /\ Out[j].declarations = parsed[i].declarations

\* the rules C4 is about, with the pseudo name of their first selector
PseudoRules ==
  { i \in ClassTargetedRules : HasPseudoSecond(parsed[i].selectors[1]) }

PseudoName(i) == parsed[i].selectors[1][2].name

PseudoMarker(i) == << "___-", toUpperCase(PseudoName(i)) >>

EmittedWithPseudo(i, d) ==
  LET k == encodeClassName(d) \o PseudoMarker(i) \o << ":", PseudoName(i) >>
  IN \E j \in DOMAIN Out :
       Out[j].key = k /\ Out[j].selectors = << k >> /\ Out[j].declarations = << d >>

\* C4 as stated: without uglify, a declaration d of a class-targeted rule
\* with pseudo p is emitted under e + '___-' + P + ':' + p, and the classMap
\* holds the base name e, without the marker '___-' + P.
C4_MapHoldsBaseName ==
  (Finished /\ ~uglify) =>
    \A i \in PseudoRules : \A d \in ToSet(parsed[i].declarations) :
      /\ EmittedWithPseudo(i, d)
      /\ \A t \in SelectorTexts(parsed[i]) :
           /\ encodeClassName(d) \in ToSet(CM[UpToColon(t)])
           /\ (encodeClassName(d) \o PseudoMarker(i)) \notin ToSet(CM[UpToColon(t)])

\* C4 amended: the classMap holds the emitted key up to its first ':', that
\* is e + '___-' + P; no classMap value contains ':'.
C4_MapHoldsMarkedName ==
  (Finished /\ ~uglify) =>
    /\ \A i \in PseudoRules : \A d \in ToSet(parsed[i].declarations) :
         /\ EmittedWithPseudo(i, d)
         /\ \A t \in SelectorTexts(parsed[i]) :
              (encodeClassName(d) \o PseudoMarker(i)) \in ToSet(CM[UpToColon(t)])
    /\ \A S \in DOMAIN CM : \A v \in ToSet(CM[S]) : ":" \notin ToSet(v)

C4_Witness ==
  /\ Finished /\ ~uglify
  /\ \E i \in PseudoRules : Len(parsed[i].declarations) >= 1
  /\ \E S \in DOMAIN CM : \E v \in ToSet(CM[S]) : "___-" \in ToSet(v)

\* the class-based keys of the New-Rules Table before the uglify pass, in
\* table order, and the rules and classMap of that moment
ClassKeys == SelectSeq(Keys(atomized.newRules), IsClassKey)

\* the j-th token of a pass that starts at counter 0 and carries the counter
RECURSIVE CounterAt(_)
CounterAt(j) == IF j = 1 THEN 0 ELSE cssUglifier(CounterAt(j - 1)).index

Token(j) == cssUglifier(CounterAt(j)).name

\* from the first ':' on
RECURSIVE FromColon(_)
FromColon(text) ==
  IF text = << >> THEN << >>
  ELSE IF Head(text) = ":" THEN text ELSE FromColon(Tail(text))

PositionOfBase(name) ==
  CHOOSE j \in DOMAIN ClassKeys : UpToColon(ClassKeys[j]) = name

\* C5: with uglify, the N class-based entries get N pairwise distinct tokens
\* drawn with one carried counter; each class-based output rule is keyed and
\* selected by its token plus its pseudo suffix; every classMap value is the
\* token of the rule it named before the pass.
C5_UglifyRenamesAll ==
  (Finished /\ uglify) =>
    LET N == Len(ClassKeys)
        classOut == SelectSeq(Out, LAMBDA r : IsClassKey(r.key))
    IN /\ index = (IF N = 0 THEN 0 ELSE cssUglifier(CounterAt(N)).index)
       /\ \A j, k \in 1..N : Token(j) = Token(k) => j = k
       /\ Len(classOut) = N
       /\ \A j \in 1..N :
            /\ classOut[j].key = Token(j) \o FromColon(ClassKeys[j])
            /\ classOut[j].selectors = << classOut[j].key >>
            /\ \E a \in DOMAIN atomized.newRules :
                 /\ atomized.newRules[a].key = ClassKeys[j]
                 /\ atomized.newRules[a].declarations = classOut[j].declarations
       /\ DOMAIN CM = DOMAIN atomized.classMap
       /\ \A S \in DOMAIN CM :
            /\ Len(CM[S]) = Len(atomized.classMap[S])
            /\ \A p \in DOMAIN CM[S] :
                 /\ \E j \in 1..N : UpToColon(ClassKeys[j]) = atomized.classMap[S][p]
                 /\ CM[S][p] = Token(PositionOfBase(atomized.classMap[S][p]))

C5_Witness ==
  /\ Finished /\ uglify
  /\ Len(ClassKeys) >= 2
  /\ \E j \in DOMAIN ClassKeys : ":" \in ToSet(ClassKeys[j])
  /\ \E S \in DOMAIN CM : Len(CM[S]) >= 2

\* t holds every distinct value of s once, ordered by last occurrence in s
LastIndex(s, v) == CHOOSE i \in DOMAIN s : s[i] = v /\ \A j \in DOMAIN s : s[j] = v => j <= i

IsLastOccurrenceOrder(t, s) ==
  /\ ToSet(t) = ToSet(s)
  /\ NoDuplicates(t)
  /\ \A i, j \in DOMAIN t : i < j => LastIndex(s, t[i]) < LastIndex(s, t[j])

\* C6: removeIdenticalProperties maps each entry to its distinct values in
\* last-occurrence order (an entry without duplicates is unchanged), and no
\* entry of the classMap returned without uglify has a duplicate.
C6_DedupLaw ==
  [][ /\ (pc = "rules" /\ pc' = "uglify") =>
           /\ DOMAIN classMap' = DOMAIN classMap
           /\ \A S \in DOMAIN classMap :
                /\ IsLastOccurrenceOrder(classMap'[S], classMap[S])
                /\ NoDuplicates(classMap[S]) => classMap'[S] = classMap[S]
      /\ (pc' = "done" /\ input' = "text" /\ ~uglify') =>
           \A S \in DOMAIN result'.classMap : NoDuplicates(result'.classMap[S])
    ]_vars

Red == [ property |-> "color", value |-> "red" ]

Blue == [ property |-> "color", value |-> "blue" ]

\* `.a { color:red; color:blue } .a { color:red }`: red moves to the end
C6_Witness ==
  /\ Finished /\ ~uglify
  /\ Len(parsed) = 2
  /\ SelectorTexts(parsed[1]) = { << ".", "a" >> }
  /\ SelectorTexts(parsed[2]) = { << ".", "a" >> }
  /\ parsed[1].declarations = << Red, Blue >>
  /\ parsed[2].declarations = << Red >>
  /\ CM[<< ".", "a" >>] = << encodeClassName(Blue), encodeClassName(Red) >>

EmptyResult == [ returned |-> TRUE, classMap |-> EmptyMap, rules |-> << >>,
                 output |-> << >> ]

\* C7: when the parser throws or returns nothing (empty input included),
\* atomize reports and returns {classMap: {}, output: ''}; the parser is
\* called once and no atomization, uglification or serialization step runs.
C7_ParseFailure ==
  input \in { "empty", "throws" } =>
    /\ pc = "done"
    /\ parsed = << >> /\ ruleIdx = 0 /\ dispatch = << >>
    /\ classMap = EmptyMap /\ newRules = << >>
    /\ keys = << >> /\ keyIdx = 0 /\ index = 0
    /\ result = EmptyResult
    /\ input = "empty" => reports = << "Invalid CSS input.", "Error parsing CSS" >>
    /\ input = "throws" => reports = << "Error parsing CSS", "Error parsing CSS" >>

C7_Witness == pc = "done" /\ input = "empty" /\ result = EmptyResult

\* the rules C8 is about: class-targeted, no selector with a pseudo
PlainClassRules ==
  { i \in ClassTargetedRules :
      \A n \in DOMAIN parsed[i].selectors :
        \A c \in DOMAIN parsed[i].selectors[n] :
          parsed[i].selectors[n][c].type # "pseudo" }

\* C8: without uglify, two plain class-targeted rules with different
\* selectors that share a declaration yield exactly one atomic rule for it,
\* keyed by its encoded name, and both selectors' classMap entries hold it.
C8_SharedEncoding ==
  (Finished /\ ~uglify) =>
    \A i, j \in PlainClassRules :
      \A s \in SelectorTexts(parsed[i]), t \in SelectorTexts(parsed[j]) :
        \A d \in ToSet(parsed[i].declarations) \cap ToSet(parsed[j].declarations) :
          (i # j /\ s # t) =>
            LET e == encodeClassName(d)
                at == { o \in DOMAIN Out : Out[o].key = e }
            IN /\ Cardinality(at) = 1
               /\ \A o \in at : Out[o].selectors = << e >>
                                /\ Out[o].declarations = << d >>
               /\ e \in ToSet(CM[s])
               /\ e \in ToSet(CM[t])

C8_Witness ==
  /\ Finished /\ ~uglify
  /\ Len(parsed) = 2
  /\ PlainClassRules = { 1, 2 }
  /\ SelectorTexts(parsed[1]) = { << ".", "a" >> }
  /\ SelectorTexts(parsed[2]) = { << ".", "b" >> }
  /\ parsed[1].declarations = << Red >>
  /\ parsed[2].declarations = << Red >>

\* C9: a rule is atomized iff the first component of its first selector is
\* the class attribute, and passed through iff it is a tag or another
\* attribute.
C9_ClassificationExact ==
  \A i \in DOMAIN dispatch :
    /\ dispatch[i] = "atomized" <=> IsClassTargeted(parsed[i])
    /\ dispatch[i] = "nonclass" <=> IsPassthrough(parsed[i])

\* C10: the rules emitted with uglify are, position by position, the rules
\* emitted without it, class-based keys renamed injectively with their
\* pseudo suffix kept, and the classMap is renamed the same way.
C10_UglifyIsRenaming ==
  (Finished /\ uglify) =>
    LET A == atomized.newRules
    IN /\ Len(Out) = Len(A)
       /\ \A j \in DOMAIN Out :
            /\ Out[j].declarations = A[j].declarations
            /\ IsClassKey(A[j].key) <=> IsClassKey(Out[j].key)
            /\ ~IsClassKey(A[j].key) => Out[j] = A[j]
            /\ IsClassKey(A[j].key) =>
                 /\ FromColon(Out[j].key) = FromColon(A[j].key)
                 /\ Out[j].selectors = << Out[j].key >>
       /\ \A j, k \in DOMAIN Out : Out[j].key = Out[k].key => j = k
       /\ DOMAIN CM = DOMAIN atomized.classMap
       /\ \A S \in DOMAIN CM :
            /\ Len(CM[S]) = Len(atomized.classMap[S])
            /\ \A p \in DOMAIN CM[S] : \E j \in DOMAIN Out :
                 /\ UpToColon(A[j].key) = atomized.classMap[S][p]
                 /\ UpToColon(Out[j].key) = CM[S][p]

\* without uglify the returned tables are the tables of that moment
AtomizedIsPlainResult ==
  (Finished /\ ~uglify) =>
    /\ Out = atomized.newRules
    /\ CM = atomized.classMap

====
